---- MODULE Spec2Model ----
(***************************************************************************)
(* Buffer-occupancy ABR rules of dash.js with look-ahead (LAB):            *)
(*   - BolaRule (src/unnamed/part_000): getMaxIndex, reset                 *)
(*   - AbandonRequestsRule (LABAbandonRequestsRule_same.js): shouldAbandon *)
(*   - LABRule (src/unnamed/part_001, LABRule.js): its look-ahead loop     *)
(*   - the shared pure functions calculateBolaParameters and               *)
(*     getQualityFromBufferLevel.                                          *)
(*                                                                         *)
(* Numbers.  JavaScript doubles are modelled in fixed point with three     *)
(* decimals: utilities, gp, Vp and buffer levels are integers counting     *)
(* thousandths.  Math.log is the table LnMilli (ln rounded to three        *)
(* decimals).  Two scores s_i = n_i / bitrate_i are compared by cross      *)
(* multiplication, with the bitrates taken in kbit/s so that the products  *)
(* stay inside 32 bits.  NaN is a number outside every input range.        *)
(***************************************************************************)
EXTENDS Integers, Sequences, FiniteSets, TLC

VARIABLES
    eng,             \* one invocation of getQualityFromBufferLevel: inputs and result
    bolaStateDict,   \* BolaRule: media type -> TrackState (or Undefined)
    last,            \* BolaRule: the last getMaxIndex / reset call and what it returned
    fragmentDict,    \* AbandonRequestsRule: media type -> fragment id -> FragmentProgress
    abandonDict,     \* AbandonRequestsRule: the abandoned fragment ids
    throughputArray, \* AbandonRequestsRule: media type -> throughput samples
    now,             \* the wall clock read by new Date().getTime(), in ms
    lastAb,          \* AbandonRequestsRule: the last shouldAbandon / reset call and its outcome
    retarget         \* one TrackState of AbandonRequestsRule under getBolaState calls

vars == <<eng, bolaStateDict, last, fragmentDict, abandonDict, throughputArray, now, lastAb,
          retarget>>

-----------------------------------------------------------------------------
(* Program constants *)

MINIMUM_BUFFER_S == 10
MINIMUM_BUFFER_PER_BITRATE_LEVEL_S == 2
BOLA_STATE_ONE_BITRATE == 0
BOLA_STATE_STARTUP == 1
GRACE_TIME_THRESHOLD == 500
MIN_LENGTH_TO_AVERAGE == 5
\* ABANDON_MULTIPLIER = 1.8, kept as the number of tenths
ABANDON_MULTIPLIER_TENTHS == 18

\* NaN, as a number no quantity of the model takes
NaN == 0 - 1000000
Undefined == [undefined |-> TRUE]
Null == [null |-> TRUE]
\* a thrown TypeError (property read of null or undefined, call of a missing method)
TypeError == [error |-> "TypeError"]

\* SwitchRequest.NO_CHANGE and the priorities of SwitchRequest.PRIORITY
NO_CHANGE == 0 - 1
PRIORITY_DEFAULT == "DEFAULT"
PRIORITY_STRONG == "STRONG"

-----------------------------------------------------------------------------
(* Bounds of the model *)

\* buffer levels handed to the engine are 0 .. MaxBufferLevel seconds
MaxBufferLevel == 30

BufferLevels == 0 .. MaxBufferLevel

\* mediaInfo.bitrateList as bandwidths in bit/s, strictly increasing
MultiTierLadders ==
    { <<500000, 1000000>>,
      <<500000, 1000000, 2000000>>,
      <<500000, 1000000, 2000000, 4000000>>,
      <<300000, 750000, 1200000>>,
      <<400000, 1000000, 2500000, 6000000>> }

SingleTierLadders == { <<500000>> }

Ladders == MultiTierLadders \cup SingleTierLadders

\* mediaPlayerModel.getStableBufferTime(), seconds
StableBufferTimes == {12, 20, 30}

\* throughputHistory.getAverageThroughput(), kbit/s
Throughputs == {250, 500, 1000, 2000, 4000, 8000}

\* representationInfo.fragmentDuration, seconds
SegmentDurations == {0, 2, 4, 10}

-----------------------------------------------------------------------------
(* Arithmetic helpers *)

Max(a, b) == IF a >= b THEN a ELSE b

\* seconds to thousandths
Milli(s) == s * 1000

Kbps(bitrate) == bitrate \div 1000

\* Math.log(b), in thousandths
LnMilli(b) ==
    CASE b = 300000  -> 12612
      [] b = 400000  -> 12899
      [] b = 500000  -> 13122
      [] b = 750000  -> 13528
      [] b = 1000000 -> 13816
      [] b = 1200000 -> 13998
      [] b = 2000000 -> 14509
      [] b = 2500000 -> 14732
      [] b = 4000000 -> 15202
      [] b = 6000000 -> 15607

\* bitrates.map(b => Math.log(b))
utilitiesFromBitrates(bitrates) ==
    [i \in 1 .. Len(bitrates) |-> LnMilli(bitrates[i])]

\* utilities.map(u => u - utilities[0] + 1)
normalize(utilities) ==
    [i \in 1 .. Len(utilities) |-> utilities[i] - utilities[1] + Milli(1)]

-----------------------------------------------------------------------------
(* Utility model: calculateBolaParameters *)

RECURSIVE reduceHighestIndex(_, _, _)
\* utilities.reduce((highestIndex, u, uIndex) => (u > utilities[highestIndex] ? uIndex : highestIndex), 0)
\* positions are 1-based here; the result is returned 0-based by highestUtilityIndex
reduceHighestIndex(utilities, highestIndex, uIndex) ==
    IF uIndex > Len(utilities) THEN highestIndex
    ELSE reduceHighestIndex(utilities,
                            IF utilities[uIndex] > utilities[highestIndex]
                            THEN uIndex ELSE highestIndex,
                            uIndex + 1)

highestUtilityIndex(utilities) == reduceHighestIndex(utilities, 1, 1) - 1

\* Math.max(stableBufferTime, MINIMUM_BUFFER_S + MINIMUM_BUFFER_PER_BITRATE_LEVEL_S * bitrates.length)
bufferTimeFor(stableBufferTime, bitrates) ==
    Max(stableBufferTime,
        MINIMUM_BUFFER_S + MINIMUM_BUFFER_PER_BITRATE_LEVEL_S * Len(bitrates))

\* calculateBolaParameters with Vp = MINIMUM_BUFFER_S * gp in place of the quotient
calculateBolaParametersVpProduct(stableBufferTime, bitrates, utilities) ==
    IF highestUtilityIndex(utilities) = 0 THEN Null
    ELSE LET bufferTime == bufferTimeFor(stableBufferTime, bitrates)
             gp == ((utilities[highestUtilityIndex(utilities) + 1] - Milli(1)) * MINIMUM_BUFFER_S)
                       \div (bufferTime - MINIMUM_BUFFER_S)
             Vp == MINIMUM_BUFFER_S * gp
         IN  [gp |-> gp, Vp |-> Vp]

\* calculateBolaParameters with the divisor taken as 1 - bufferTime / MINIMUM_BUFFER_S
calculateBolaParametersNegatedDivisor(stableBufferTime, bitrates, utilities) ==
    IF highestUtilityIndex(utilities) = 0 THEN Null
    ELSE LET bufferTime == bufferTimeFor(stableBufferTime, bitrates)
             gp == 0 - ((utilities[highestUtilityIndex(utilities) + 1] - Milli(1))
                            * MINIMUM_BUFFER_S) \div (bufferTime - MINIMUM_BUFFER_S)
             Vp == 0 - (Milli(MINIMUM_BUFFER_S) * 1000) \div (0 - gp)
         IN  [gp |-> gp, Vp |-> Vp]

\* null, or { gp, Vp } in thousandths:
\*   gp = (utilities[highestUtilityIndex] - 1) / (bufferTime / MINIMUM_BUFFER_S - 1)
\*   Vp = MINIMUM_BUFFER_S / gp
calculateBolaParameters(stableBufferTime, bitrates, utilities) ==
    IF highestUtilityIndex(utilities) = 0 THEN Null
    ELSE LET bufferTime == bufferTimeFor(stableBufferTime, bitrates)
             gp == ((utilities[highestUtilityIndex(utilities) + 1] - Milli(1)) * MINIMUM_BUFFER_S)
                       \div (bufferTime - MINIMUM_BUFFER_S)
             Vp == (Milli(MINIMUM_BUFFER_S) * 1000) \div gp
         IN  [gp |-> gp, Vp |-> Vp]

-----------------------------------------------------------------------------
(* Quality selection engine: getQualityFromBufferLevel *)

\* numerator of the score of 0-based index i: Vp * (utilities[i] + gp) - LABLevel
scoreNumerator(bolaState, i, LABLevel) ==
    (bolaState.Vp * (bolaState.utilities[i + 1] + bolaState.gp)) \div 1000 - LABLevel

\* scoreAccepted with a strict comparison: an equal score does not replace the best
scoreAcceptedStrictly(bolaState, i, best, LABLevel) ==
    scoreNumerator(bolaState, i, LABLevel) * Kbps(bolaState.bitrates[best + 1])
        > scoreNumerator(bolaState, best, LABLevel) * Kbps(bolaState.bitrates[i + 1])

\* s >= score, for s = scoreNumerator(i) / bitrates[i] and score that of index best
scoreAccepted(bolaState, i, best, LABLevel) ==
    scoreNumerator(bolaState, i, LABLevel) * Kbps(bolaState.bitrates[best + 1])
        >= scoreNumerator(bolaState, best, LABLevel) * Kbps(bolaState.bitrates[i + 1])

RECURSIVE scoringPassFrom(_, _, _, _)
\* the for loop over i: quality is the running argmax; i = 0 is taken because score is NaN
scoringPassFrom(bolaState, LABLevel, i, quality) ==
    IF i >= Len(bolaState.bitrates) THEN quality
    ELSE scoringPassFrom(bolaState, LABLevel, i + 1,
                         IF scoreAccepted(bolaState, i, quality, LABLevel)
                         THEN i ELSE quality)

scoringPass(bolaState, LABLevel) == scoringPassFrom(bolaState, LABLevel, 1, 0)

\* projectedLevel with the download time of the segment added in place of subtracted
projectedLevelAddsDownload(bufferLevel, bitrate, throughput, segmentDuration) ==
    Milli(bufferLevel) + Milli(segmentDuration)
        + (Kbps(bitrate) * Milli(segmentDuration)) \div throughput

\* LABLevel = bufferLevel + (1 - bitrate / throughput / 1000) * segmentDuration, thousandths
projectedLevel(bufferLevel, bitrate, throughput, segmentDuration) ==
    Milli(bufferLevel) + Milli(segmentDuration)
        - (Kbps(bitrate) * Milli(segmentDuration)) \div throughput

RECURSIVE lookAheadLoop(_, _, _, _, _, _, _, _)
\* one iteration of the while loop per unfolding; passes counts the scoring passes made
lookAheadLoop(bolaState, bufferLevel, throughput, segmentDuration, bitrate, LABLevel, maxIte, passes) ==
    LET quality == scoringPass(bolaState, LABLevel)
        newBitrate == bolaState.bitrates[quality + 1]
        newLevel == projectedLevel(bufferLevel, newBitrate, throughput, segmentDuration)
    IN  IF maxIte - 1 < 0 \/ newBitrate = bitrate
        THEN [quality |-> quality, passes |-> passes + 1, LABLevel |-> newLevel]
        ELSE lookAheadLoop(bolaState, bufferLevel, throughput, segmentDuration,
                           newBitrate, newLevel, maxIte - 1, passes + 1)

\* the loop started with bitrate = NaN, LABLevel = bufferLevel, maxIte = bitrateCount
runLookAhead(bolaState, bufferLevel, throughput, segmentDuration) ==
    lookAheadLoop(bolaState, bufferLevel, throughput, segmentDuration,
                  NaN, Milli(bufferLevel), Len(bolaState.bitrates), 0)

getQualityFromBufferLevel(bolaState, bufferLevel, throughput, segmentDuration) ==
    runLookAhead(bolaState, bufferLevel, throughput, segmentDuration).quality

-----------------------------------------------------------------------------
(* Track state store of BolaRule *)

MediaTypes == {"video", "audio"}

\* clearBolaStateOnSeek that also sets lastQuality back to 0
clearBolaStateOnSeekResetsQuality(bolaState) ==
    [placeholderBuffer |-> 0,
     mostAdvancedSegmentStart |-> NaN,
     lastSegmentWasReplacement |-> FALSE,
     lastSegmentStart |-> NaN,
     lastSegmentDurationS |-> NaN,
     lastSegmentRequestTimeMs |-> NaN,
     lastSegmentFinishTimeMs |-> NaN,
     lastQuality |-> 0] @@ bolaState

\* bolaState.placeholderBuffer = 0 and the seek bookkeeping set to unknown;
\* every other field of bolaState is kept
clearBolaStateOnSeek(bolaState) ==
    [placeholderBuffer |-> 0,
     mostAdvancedSegmentStart |-> NaN,
     lastSegmentWasReplacement |-> FALSE,
     lastSegmentStart |-> NaN,
     lastSegmentDurationS |-> NaN,
     lastSegmentRequestTimeMs |-> NaN,
     lastSegmentFinishTimeMs |-> NaN] @@ bolaState

\* BolaRule.getInitialBolaState: params.Vp is read without a null check, so a
\* ladder for which calculateBolaParameters returns null raises a TypeError
getInitialBolaState(bitrateList, stableBufferTime) ==
    LET bitrates == bitrateList
        utilities == normalize(utilitiesFromBitrates(bitrates))
        params == calculateBolaParameters(stableBufferTime, bitrates, utilities)
    IN  IF params = Null THEN TypeError
        ELSE clearBolaStateOnSeek(
                 [bitrates |-> bitrates,
                  utilities |-> utilities,
                  stableBufferTime |-> stableBufferTime,
                  Vp |-> params.Vp,
                  gp |-> params.gp,
                  lastQuality |-> 0])

\* BolaRule.getBolaState: the state of the media type, built on first use.
\* The result is the state (or the TypeError of getInitialBolaState); the
\* dictionary after the call is getBolaStateDict.
getBolaState(dict, mediaType, bitrateList, stableBufferTime) ==
    IF dict[mediaType] = Undefined
    THEN getInitialBolaState(bitrateList, stableBufferTime)
    ELSE dict[mediaType]

getBolaStateDict(dict, mediaType, bitrateList, stableBufferTime) ==
    LET bolaState == getBolaState(dict, mediaType, bitrateList, stableBufferTime)
    IN  IF bolaState = TypeError THEN dict
        ELSE [dict EXCEPT ![mediaType] = bolaState]

-----------------------------------------------------------------------------
(* Switch decision builder: BolaRule.getMaxIndex *)

\* the accessors getMaxIndex tests with hasOwnProperty before using the context
GuardedCapabilities ==
    {"getMediaInfo", "getMediaType", "getScheduleController",
     "getStreamInfo", "getAbrController", "useBufferOccupancyABR"}

\* getRepresentationInfo is called by getMaxIndex but not tested by its guard
AllCapabilities == GuardedCapabilities \cup {"getRepresentationInfo"}

BolaLadders == SingleTierLadders \cup { <<500000, 1000000, 2000000>> }

\* what a calling context with every accessor, and the collaborators behind it, answer
FullContexts ==
    [caps : {AllCapabilities},
     mediaType : MediaTypes,
     bitrateList : BolaLadders,
     useBufferOccupancyABR : {TRUE},
     fragmentDuration : {4},
     bufferLevel : {0, MINIMUM_BUFFER_S, MaxBufferLevel},
     throughput : {500, 4000, NaN},
     stableBufferTime : {12, 30}]

\* contexts whose opt-in flag for buffer-occupancy ABR is false
OptOutContexts ==
    [caps : {AllCapabilities},
     mediaType : MediaTypes,
     bitrateList : BolaLadders,
     useBufferOccupancyABR : {FALSE},
     fragmentDuration : {2},
     bufferLevel : {MINIMUM_BUFFER_S},
     throughput : {4000, NaN},
     stableBufferTime : {12}]

\* contexts that lack exactly one accessor
DeficientContexts ==
    [caps : {AllCapabilities \ {c} : c \in AllCapabilities},
     mediaType : MediaTypes,
     bitrateList : { <<500000, 1000000, 2000000>> },
     useBufferOccupancyABR : BOOLEAN,
     fragmentDuration : {2},
     bufferLevel : {MINIMUM_BUFFER_S},
     throughput : {4000},
     stableBufferTime : {12}]

RulesContexts == FullContexts \cup OptOutContexts \cup DeficientContexts \cup {Null}

\* SwitchRequest(context).create(): quality NO_CHANGE, priority DEFAULT
noOpSwitchRequest == [quality |-> NO_CHANGE, priority |-> PRIORITY_DEFAULT]

\* One call of getMaxIndex on the dictionary dict: the dictionary after the call,
\* how the call ended ("returned" a switchRequest or "threw"), the switchRequest,
\* and the number of scheduleController.setTimeToLoadDelay(0) calls made.
getMaxIndex(dict, rulesContext) ==
    IF rulesContext = Null \/ ~(GuardedCapabilities \subseteq rulesContext.caps)
    THEN [dict |-> dict, outcome |-> "returned", switchRequest |-> noOpSwitchRequest,
          delayDirectives |-> 0]
    ELSE IF "getRepresentationInfo" \notin rulesContext.caps
    THEN \* rulesContext.getRepresentationInfo is not a function
         [dict |-> dict, outcome |-> "threw", switchRequest |-> noOpSwitchRequest,
          delayDirectives |-> 0]
    ELSE IF ~rulesContext.useBufferOccupancyABR
    THEN [dict |-> dict, outcome |-> "returned", switchRequest |-> noOpSwitchRequest,
          delayDirectives |-> 0]
    ELSE LET \* scheduleController.setTimeToLoadDelay(0) has been called here
             bolaState == getBolaState(dict, rulesContext.mediaType,
                                       rulesContext.bitrateList,
                                       rulesContext.stableBufferTime)
             dict1 == getBolaStateDict(dict, rulesContext.mediaType,
                                       rulesContext.bitrateList,
                                       rulesContext.stableBufferTime)
         IN  IF bolaState = TypeError
             THEN [dict |-> dict1, outcome |-> "threw",
                   switchRequest |-> noOpSwitchRequest, delayDirectives |-> 1]
             ELSE IF rulesContext.throughput = NaN
             THEN [dict |-> dict1, outcome |-> "returned",
                   switchRequest |-> noOpSwitchRequest, delayDirectives |-> 1]
             ELSE LET quality == getQualityFromBufferLevel(bolaState,
                                     rulesContext.bufferLevel,
                                     rulesContext.throughput,
                                     rulesContext.fragmentDuration)
                  IN  [dict |-> [dict1 EXCEPT ![rulesContext.mediaType].lastQuality = quality],
                       outcome |-> "returned",
                       switchRequest |-> [quality |-> quality, priority |-> PRIORITY_STRONG],
                       delayDirectives |-> 1]

\* resetInitialSettings: bolaStateDict = {}
resetInitialSettings == [t \in MediaTypes |-> Undefined]

GetMaxIndex ==
    /\ \E rulesContext \in RulesContexts :
         \E call \in {getMaxIndex(bolaStateDict, rulesContext)} :
             /\ bolaStateDict' = call.dict
             /\ last' = [op |-> "getMaxIndex",
                         rulesContext |-> rulesContext,
                         outcome |-> call.outcome,
                         switchRequest |-> call.switchRequest,
                         delayDirectives |-> call.delayDirectives]
    /\ UNCHANGED <<eng, fragmentDict, abandonDict, throughputArray, now, lastAb, retarget>>

BolaReset ==
    /\ bolaStateDict' = resetInitialSettings
    /\ last' = [op |-> "reset", rulesContext |-> Null, outcome |-> "returned",
                switchRequest |-> noOpSwitchRequest, delayDirectives |-> 0]
    /\ UNCHANGED <<eng, fragmentDict, abandonDict, throughputArray, now, lastAb, retarget>>

-----------------------------------------------------------------------------
(* Abandonment monitor: AbandonRequestsRule.shouldAbandon *)

\* the values new Date().getTime() takes, ms after the first byte of the requests
ClockTimes == {0, 300, 600}
\* the sample window is followed up to MaxSamples samples
MaxSamples == 5

FragmentIds == {1, 2}

\* a property that has not been assigned (undefined), for numeric properties
UndefinedNumber == 0 - 2000000

\* Math.round(a / b) for a >= 0, b > 0
RoundDiv(a, b) == (2 * a + b) \div (2 * b)

RECURSIVE SumSeq(_)
\* throughputArray[mediaType].reduce((a, b) => a + b, 0)
SumSeq(samples) ==
    IF samples = <<>> THEN 0 ELSE Head(samples) + SumSeq(Tail(samples))

\* fragmentDict[type][id] = fragmentDict[type][id] || {}: the entry as an object
\* none of whose properties is assigned
emptyFragmentInfo ==
    [firstByteTime |-> UndefinedNumber,
     segmentDuration |-> UndefinedNumber,
     bytesTotal |-> UndefinedNumber,
     id |-> UndefinedNumber,
     bytesLoaded |-> UndefinedNumber,
     elapsedTime |-> UndefinedNumber,
     measuredBandwidthInKbps |-> UndefinedNumber,
     estimatedTimeOfDownload |-> UndefinedNumber]

setFragmentRequestDict(dict, type, id) ==
    IF dict[type][id] = Undefined
    THEN [dict EXCEPT ![type][id] = emptyFragmentInfo]
    ELSE dict

\* throughputArray[type].push(throughput)
storeLastRequestThroughputByType(array, type, throughput) ==
    [array EXCEPT ![type] = Append(@, throughput)]

\* the accessors shouldAbandon tests with hasOwnProperty
AbandonGuardedCapabilities ==
    {"getMediaInfo", "getMediaType", "getCurrentRequest",
     "getRepresentationInfo", "getAbrController"}

\* getStreamInfo is called by shouldAbandon but not tested by its guard
AbandonAllCapabilities == AbandonGuardedCapabilities \cup {"getStreamInfo"}

\* let bolaStateDict is declared and never assigned: reset() sets fragmentDict,
\* abandonDict and throughputArray only
abandonBolaStateDict == Undefined

\* AbandonRequestsRule.getBolaState: bolaStateDict[mediaType] on an undefined
\* bolaStateDict raises a TypeError
abandonGetBolaState(mediaType) ==
    IF abandonBolaStateDict = Undefined THEN TypeError
    ELSE abandonBolaStateDict[mediaType]

\* +((bytesTotal * 8 / measuredBandwidthInKbps) / 1000).toFixed(2), in hundredths of a second
estimatedTimeOfDownload(bytesTotal, measuredBandwidthInKbps) ==
    RoundDiv(bytesTotal * 8, measuredBandwidthInKbps * 10)

\* estimatedTimeOfDownload < segmentDuration * ABANDON_MULTIPLIER
finishesInTime(estimate, segmentDuration) ==
    estimate * 10 < segmentDuration * 100 * ABANDON_MULTIPLIER_TENTHS

\* no call of getQualityFromBufferLevel was made: no buffer level was handed over
NotCalled == 0 - 4000000

\* NO_CHANGE switch request of shouldAbandon
noChange == [quality |-> NO_CHANGE]

\* the media types and fragment ids of the requests that are notified
AbandonMediaTypes == {"video"}
AbandonIds == {1}

\* req.firstByteDate === null
NullDate == 0 - 3000000

\* a context with every accessor: the media type, the current request (index,
\* firstByteDate, duration, bytesTotal, bytesLoaded) and the quality of the
\* representation being downloaded
AbandonFullContexts ==
    [caps : {AbandonAllCapabilities},
     mediaType : AbandonMediaTypes,
     index : AbandonIds \cup {NaN},
     firstByteDate : {NullDate, 0},
     duration : {4},
     bytesTotal : {600000},
     bytesLoaded : {0, 30000, 600000},
     quality : {0, 1},
     bufferLevel : {MINIMUM_BUFFER_S}]

AbandonDeficientContexts ==
    [caps : {AbandonAllCapabilities \ {c} : c \in AbandonAllCapabilities},
     mediaType : AbandonMediaTypes,
     index : {1},
     firstByteDate : {0},
     duration : {4},
     bytesTotal : {600000},
     bytesLoaded : {30000},
     quality : {1},
     bufferLevel : {MINIMUM_BUFFER_S}]

\* notifications for a request of the same index on the audio track
AbandonOtherTrackContexts ==
    [caps : {AbandonAllCapabilities},
     mediaType : {"audio"},
     index : AbandonIds,
     firstByteDate : {0},
     duration : {4},
     bytesTotal : {600000},
     bytesLoaded : {30000},
     quality : {1},
     bufferLevel : {MINIMUM_BUFFER_S}]

AbandonContexts ==
    AbandonFullContexts \cup AbandonOtherTrackContexts \cup AbandonDeficientContexts \cup {Null}

\* abandonmentDue with the sample count tested against 1
abandonmentDueOnFirstSample(samples, elapsedTime, bytesLoaded, bytesTotal) ==
    /\ Len(samples) >= 1
    /\ elapsedTime > GRACE_TIME_THRESHOLD
    /\ bytesLoaded < bytesTotal

\* abandonmentDue without the test that bytes are still outstanding
abandonmentDueWhenComplete(samples, elapsedTime, bytesLoaded, bytesTotal) ==
    /\ Len(samples) >= MIN_LENGTH_TO_AVERAGE
    /\ elapsedTime > GRACE_TIME_THRESHOLD

\* throughputArray[mediaType].length >= MIN_LENGTH_TO_AVERAGE &&
\* fragmentInfo.elapsedTime > GRACE_TIME_THRESHOLD &&
\* fragmentInfo.bytesLoaded < fragmentInfo.bytesTotal
abandonmentDue(samples, elapsedTime, bytesLoaded, bytesTotal) ==
    /\ Len(samples) >= MIN_LENGTH_TO_AVERAGE
    /\ elapsedTime > GRACE_TIME_THRESHOLD
    /\ bytesLoaded < bytesTotal

\* keepsRequest without the test of the lowest quality
keepsRequestAnyQuality(estimate, segmentDuration, quality) ==
    finishesInTime(estimate, segmentDuration)

\* estimatedTimeOfDownload < segmentDuration * ABANDON_MULTIPLIER ||
\* rulesContext.getRepresentationInfo().quality === 0
keepsRequest(estimate, segmentDuration, quality) ==
    finishesInTime(estimate, segmentDuration) \/ quality = 0

\* abrController.getBitrateList(mediaInfo) of the tracks whose requests are notified
AbandonLadder == <<500000, 1000000, 2000000>>

\* fragmentInfo.bytesTotal * bitrateList[newQuality].bitrate
\*     / bitrateList[abrController.getQualityFor(mediaType, streamId)].bitrate
estimateOtherBytesTotal(bytesTotal, bitrateList, newQuality, quality) ==
    (bytesTotal * Kbps(bitrateList[newQuality + 1])) \div Kbps(bitrateList[quality + 1])

\* The part of shouldAbandon that follows the update of bytesLoaded and
\* elapsedTime (lines 246-289): dict and array are the dictionaries after that
\* update, fragmentInfo the entry of the request.
evaluateAbandon(dict, abandoned, array, rulesContext, fragmentInfo) ==
    LET type == rulesContext.mediaType
        array1 == IF fragmentInfo.bytesLoaded > 0 /\ fragmentInfo.elapsedTime > 0
                  THEN storeLastRequestThroughputByType(array, type,
                           RoundDiv(fragmentInfo.bytesLoaded * 8, fragmentInfo.elapsedTime))
                  ELSE array
    IN  IF abandonmentDue(array1[type], fragmentInfo.elapsedTime,
                          fragmentInfo.bytesLoaded, fragmentInfo.bytesTotal)
        THEN LET measured == RoundDiv(SumSeq(array1[type]), Len(array1[type]))
                 estimate == estimatedTimeOfDownload(fragmentInfo.bytesTotal, measured)
                 info1 == [fragmentInfo EXCEPT !.measuredBandwidthInKbps = measured,
                                               !.estimatedTimeOfDownload = estimate]
                 dict1 == [dict EXCEPT ![type][rulesContext.index] = info1]
             IN  IF keepsRequest(estimate, info1.segmentDuration, rulesContext.quality)
                 THEN [fragmentDict |-> dict1, abandonDict |-> abandoned,
                       throughputArray |-> array1, outcome |-> "returned",
                       switchRequest |-> noChange, engineLevel |-> NotCalled]
                 ELSE IF info1.id \notin abandoned
                 THEN \* getBolaState(rulesContext) raises a TypeError; were a state
                      \* returned, line 268 reads segmentDuration before its const
                      \* declaration (line 271) and raises a ReferenceError: nothing
                      \* of lines 269-285 runs
                      IF abandonGetBolaState(type) = TypeError
                      THEN [fragmentDict |-> dict1, abandonDict |-> abandoned,
                            throughputArray |-> array1, outcome |-> "threw",
                            switchRequest |-> noChange, engineLevel |-> NotCalled]
                      ELSE [fragmentDict |-> dict1, abandonDict |-> abandoned,
                            throughputArray |-> array1, outcome |-> "threw",
                            switchRequest |-> noChange, engineLevel |-> NotCalled]
                 ELSE [fragmentDict |-> dict1, abandonDict |-> abandoned,
                       throughputArray |-> array1, outcome |-> "returned",
                       switchRequest |-> noChange, engineLevel |-> NotCalled]
        ELSE IF fragmentInfo.bytesLoaded = fragmentInfo.bytesTotal
        THEN \* delete fragmentDict[mediaType][fragmentInfo.id]
             [fragmentDict |-> [dict EXCEPT ![type][fragmentInfo.id] = Undefined],
              abandonDict |-> abandoned, throughputArray |-> array1,
              outcome |-> "returned", switchRequest |-> noChange, engineLevel |-> NotCalled]
        ELSE [fragmentDict |-> dict, abandonDict |-> abandoned,
              throughputArray |-> array1, outcome |-> "returned",
              switchRequest |-> noChange, engineLevel |-> NotCalled]

\* One call of shouldAbandon at clock time: the three dictionaries after the call,
\* how the call ended ("returned" a switchRequest or "threw") and the switchRequest.
shouldAbandon(dict, abandoned, array, time, rulesContext) ==
    IF rulesContext = Null \/ ~(AbandonGuardedCapabilities \subseteq rulesContext.caps)
    THEN [fragmentDict |-> dict, abandonDict |-> abandoned, throughputArray |-> array,
          outcome |-> "returned", switchRequest |-> noChange, engineLevel |-> NotCalled]
    ELSE IF "getStreamInfo" \notin rulesContext.caps
    THEN \* rulesContext.getStreamInfo is not a function
         [fragmentDict |-> dict, abandonDict |-> abandoned, throughputArray |-> array,
          outcome |-> "threw", switchRequest |-> noChange, engineLevel |-> NotCalled]
    ELSE IF rulesContext.index = NaN
    THEN [fragmentDict |-> dict, abandonDict |-> abandoned, throughputArray |-> array,
          outcome |-> "returned", switchRequest |-> noChange, engineLevel |-> NotCalled]
    ELSE LET type == rulesContext.mediaType
             dict1 == setFragmentRequestDict(dict, type, rulesContext.index)
             fragmentInfo == dict1[type][rulesContext.index]
         IN  IF rulesContext.firstByteDate = NullDate \/ fragmentInfo.id \in abandoned
             THEN [fragmentDict |-> dict1, abandonDict |-> abandoned,
                   throughputArray |-> array, outcome |-> "returned",
                   switchRequest |-> noChange, engineLevel |-> NotCalled]
             ELSE LET first == fragmentInfo.firstByteTime = UndefinedNumber
                      array1 == IF first THEN [array EXCEPT ![type] = <<>>] ELSE array
                      info1 == IF first
                               THEN [fragmentInfo EXCEPT
                                        !.firstByteTime = rulesContext.firstByteDate,
                                        !.segmentDuration = rulesContext.duration,
                                        !.bytesTotal = rulesContext.bytesTotal,
                                        !.id = rulesContext.index]
                               ELSE fragmentInfo
                      info2 == [info1 EXCEPT !.bytesLoaded = rulesContext.bytesLoaded,
                                             !.elapsedTime = time - info1.firstByteTime]
                      dict2 == [dict1 EXCEPT ![type][rulesContext.index] = info2]
                  IN  evaluateAbandon(dict2, abandoned, array1, rulesContext, info2)

\* AbandonRequestsRule.reset
abandonReset ==
    [fragmentDict |-> [t \in MediaTypes |-> [i \in FragmentIds |-> Undefined]],
     abandonDict |-> {},
     throughputArray |-> [t \in MediaTypes |-> <<>>]]

\* a call of shouldAbandon with one of the contexts
ShouldAbandonOn(contexts) ==
    /\ \E rulesContext \in contexts :
         \E call \in {shouldAbandon(fragmentDict, abandonDict, throughputArray, now, rulesContext)} :
             /\ \A t \in MediaTypes : Len(call.throughputArray[t]) <= MaxSamples
             /\ fragmentDict' = call.fragmentDict
             /\ abandonDict' = call.abandonDict
             /\ throughputArray' = call.throughputArray
             /\ lastAb' = [op |-> "shouldAbandon",
                           rulesContext |-> rulesContext,
                           outcome |-> call.outcome,
                           switchRequest |-> call.switchRequest,
                           engineLevel |-> call.engineLevel]
    /\ UNCHANGED <<eng, bolaStateDict, last, now, retarget>>

ShouldAbandon == ShouldAbandonOn(AbandonContexts)

\* notifications of two requests that are in flight on the video track at the same
\* time; their bytesLoaded differ, so that a sample of one request is never equal
\* to a sample of the other
InterleavedContexts ==
    {[caps |-> AbandonAllCapabilities, mediaType |-> "video", index |-> request[1],
      firstByteDate |-> 0, duration |-> 4, bytesTotal |-> 600000,
      bytesLoaded |-> request[2], quality |-> 1, bufferLevel |-> MINIMUM_BUFFER_S] :
        request \in {<<1, 30000>>, <<2, 45000>>}}

ShouldAbandonInterleaved == ShouldAbandonOn(InterleavedContexts)

AbandonReset ==
    /\ fragmentDict' = abandonReset.fragmentDict
    /\ abandonDict' = abandonReset.abandonDict
    /\ throughputArray' = abandonReset.throughputArray
    /\ lastAb' = [op |-> "reset", rulesContext |-> Null, outcome |-> "returned",
                  switchRequest |-> noChange, engineLevel |-> NotCalled]
    /\ UNCHANGED <<eng, bolaStateDict, last, now, retarget>>

\* time passes between two notifications
Tick ==
    /\ \E t \in ClockTimes : t > now /\ now' = t
    /\ UNCHANGED <<eng, bolaStateDict, last, fragmentDict, abandonDict, throughputArray, lastAb,
                   retarget>>

-----------------------------------------------------------------------------
(* Track state of AbandonRequestsRule: getInitialBolaState, getBolaState on an
   existing track and checkBolaStateStableBufferTime.  Buffer levels and the
   placeholder buffer are in thousandths of a second. *)

\* AbandonRequestsRule.getInitialBolaState: a ladder without parameters gets the
\* ONE_BITRATE state, which has no other field
abandonGetInitialBolaState(bitrateList, stableBufferTime) ==
    LET bitrates == bitrateList
        utilities == normalize(utilitiesFromBitrates(bitrates))
        params == calculateBolaParameters(stableBufferTime, bitrates, utilities)
    IN  IF params = Null THEN [state |-> BOLA_STATE_ONE_BITRATE]
        ELSE clearBolaStateOnSeek(
                 [state |-> BOLA_STATE_STARTUP,
                  bitrates |-> bitrates,
                  utilities |-> utilities,
                  stableBufferTime |-> stableBufferTime,
                  Vp |-> params.Vp,
                  gp |-> params.gp,
                  lastQuality |-> 0])

\* checkBolaStateStableBufferTime that rescales on every call, from the real buffer
\* level alone
checkBolaStateStableBufferTimeFromRealLevel(bolaState, stableBufferTime, bufferLevel) ==
    LET params == calculateBolaParameters(stableBufferTime, bolaState.bitrates,
                                          bolaState.utilities)
        effectiveBufferLevel ==
            ((bufferLevel - Milli(MINIMUM_BUFFER_S)) * params.Vp) \div bolaState.Vp
                + Milli(MINIMUM_BUFFER_S)
    IN  [bolaState EXCEPT
            !.stableBufferTime = stableBufferTime,
            !.Vp = params.Vp,
            !.gp = params.gp,
            !.placeholderBuffer = Max(0, effectiveBufferLevel - bufferLevel)]

\* checkBolaStateStableBufferTime that scales the whole effective buffer level by
\* Vp, without the offset of MINIMUM_BUFFER_S
checkBolaStateStableBufferTimeScalesAll(bolaState, stableBufferTime, bufferLevel) ==
    IF bolaState.stableBufferTime # stableBufferTime
    THEN LET params == calculateBolaParameters(stableBufferTime, bolaState.bitrates,
                                               bolaState.utilities)
         IN  IF params.Vp # bolaState.Vp \/ params.gp # bolaState.gp
             THEN LET effectiveBufferLevel ==
                          ((bufferLevel + bolaState.placeholderBuffer) * params.Vp)
                              \div bolaState.Vp
                  IN  [bolaState EXCEPT
                          !.stableBufferTime = stableBufferTime,
                          !.Vp = params.Vp,
                          !.gp = params.gp,
                          !.placeholderBuffer = Max(0, effectiveBufferLevel - bufferLevel)]
             ELSE bolaState
    ELSE bolaState

\* checkBolaStateStableBufferTime without Math.max(0, ...): the placeholder buffer
\* may become negative
checkBolaStateStableBufferTimeUnclamped(bolaState, stableBufferTime, bufferLevel) ==
    IF bolaState.stableBufferTime # stableBufferTime
    THEN LET params == calculateBolaParameters(stableBufferTime, bolaState.bitrates,
                                               bolaState.utilities)
         IN  IF params.Vp # bolaState.Vp \/ params.gp # bolaState.gp
             THEN LET effectiveBufferLevel ==
                          ((bufferLevel + bolaState.placeholderBuffer
                                - Milli(MINIMUM_BUFFER_S)) * params.Vp) \div bolaState.Vp
                              + Milli(MINIMUM_BUFFER_S)
                  IN  [bolaState EXCEPT
                          !.stableBufferTime = stableBufferTime,
                          !.Vp = params.Vp,
                          !.gp = params.gp,
                          !.placeholderBuffer = effectiveBufferLevel - bufferLevel]
             ELSE bolaState
    ELSE bolaState

\* checkBolaStateStableBufferTime that rescales the placeholder buffer and caches
\* the target, and leaves the cached Vp and gp as they were
checkBolaStateStableBufferTimeKeepsParameters(bolaState, stableBufferTime, bufferLevel) ==
    IF bolaState.stableBufferTime # stableBufferTime
    THEN LET params == calculateBolaParameters(stableBufferTime, bolaState.bitrates,
                                               bolaState.utilities)
         IN  IF params.Vp # bolaState.Vp \/ params.gp # bolaState.gp
             THEN LET effectiveBufferLevel ==
                          ((bufferLevel + bolaState.placeholderBuffer
                                - Milli(MINIMUM_BUFFER_S)) * params.Vp) \div bolaState.Vp
                              + Milli(MINIMUM_BUFFER_S)
                  IN  [bolaState EXCEPT
                          !.stableBufferTime = stableBufferTime,
                          !.placeholderBuffer = Max(0, effectiveBufferLevel - bufferLevel)]
             ELSE bolaState
    ELSE bolaState

\* checkBolaStateStableBufferTime: bolaState after the call, for the configured
\* stableBufferTime and the current bufferLevel of the media type
checkBolaStateStableBufferTime(bolaState, stableBufferTime, bufferLevel) ==
    IF bolaState.stableBufferTime # stableBufferTime
    THEN LET params == calculateBolaParameters(stableBufferTime, bolaState.bitrates,
                                               bolaState.utilities)
         IN  IF params.Vp # bolaState.Vp \/ params.gp # bolaState.gp
             THEN LET effectiveBufferLevel ==
                          ((bufferLevel + bolaState.placeholderBuffer
                                - Milli(MINIMUM_BUFFER_S)) * params.Vp) \div bolaState.Vp
                              + Milli(MINIMUM_BUFFER_S)
                  IN  [bolaState EXCEPT
                          !.stableBufferTime = stableBufferTime,
                          !.Vp = params.Vp,
                          !.gp = params.gp,
                          !.placeholderBuffer = Max(0, effectiveBufferLevel - bufferLevel)]
             ELSE bolaState
    ELSE bolaState

\* getBolaState on a track that has a state: checkBolaStateStableBufferTime unless
\* the state is ONE_BITRATE
getBolaStateOfTrack(bolaState, stableBufferTime, bufferLevel) ==
    IF bolaState.state # BOLA_STATE_ONE_BITRATE
    THEN checkBolaStateStableBufferTime(bolaState, stableBufferTime, bufferLevel)
    ELSE bolaState

\* the getBolaState calls followed on one track
MaxRetargets == 2

RetargetLadders ==
    SingleTierLadders \cup {<<500000, 1000000, 2000000>>, <<500000, 1000000, 2000000, 4000000>>}

\* dashMetrics.getCurrentBufferLevel(mediaType) at a call: whole seconds, and the
\* level at which the effective buffer level is MINIMUM_BUFFER_S
RetargetBufferLevels(bolaState) ==
    {Milli(b) : b \in {0, MINIMUM_BUFFER_S, 20, MaxBufferLevel}}
        \cup (IF bolaState.state # BOLA_STATE_ONE_BITRATE
                 /\ bolaState.placeholderBuffer <= Milli(MINIMUM_BUFFER_S)
              THEN {Milli(MINIMUM_BUFFER_S) - bolaState.placeholderBuffer}
              ELSE {})

\* mediaPlayerModel.getStableBufferTime() at the calls on the track: the targets of
\* the engine's inputs, one that the ladders of three and four tiers raise to the
\* same buffer time as 12 s, and targets that are not above MINIMUM_BUFFER_S
RetargetStableBufferTimes == StableBufferTimes \cup {4, MINIMUM_BUFFER_S, 14}

retargetIdle ==
    [bolaState |-> Undefined, before |-> Undefined, stableBufferTime |-> 0,
     bufferLevel |-> 0, calls |-> 0]

\* a track whose state getInitialBolaState has just built
RetargetInputs ==
    {[bolaState |-> abandonGetInitialBolaState(bitrateList, stableBufferTime),
      before |-> Undefined, stableBufferTime |-> stableBufferTime,
      bufferLevel |-> 0, calls |-> 0] :
        bitrateList \in RetargetLadders, stableBufferTime \in RetargetStableBufferTimes}

\* one call of getBolaState on the track, with the target buffer time configured
\* and the buffer level of the track at the time of the call
GetBolaStateOfTrack ==
    /\ retarget.bolaState # Undefined
    /\ retarget.calls < MaxRetargets
    /\ \E stableBufferTime \in RetargetStableBufferTimes :
         \E bufferLevel \in RetargetBufferLevels(retarget.bolaState) :
             retarget' = [bolaState |-> getBolaStateOfTrack(retarget.bolaState,
                                                            stableBufferTime, bufferLevel),
                          before |-> retarget.bolaState,
                          stableBufferTime |-> stableBufferTime,
                          bufferLevel |-> bufferLevel,
                          calls |-> retarget.calls + 1]
    /\ UNCHANGED <<eng, bolaStateDict, last, fragmentDict, abandonDict, throughputArray, now,
                   lastAb>>

\* the TrackStates clearBolaStateOnSeek is applied to: those of BolaRule, with the
\* lastQuality getMaxIndex recorded, and those of AbandonRequestsRule after a
\* getBolaState call, with the placeholder buffer the call left
SeekStates ==
    UNION {{[getInitialBolaState(bitrateList, stableBufferTime) EXCEPT !.lastQuality = quality] :
               quality \in 0 .. (Len(bitrateList) - 1)} :
             bitrateList \in MultiTierLadders, stableBufferTime \in StableBufferTimes}
      \cup {getBolaStateOfTrack(input.bolaState, stableBufferTime, bufferLevel) :
               input \in {i \in RetargetInputs : i.bolaState.state # BOLA_STATE_ONE_BITRATE},
               stableBufferTime \in RetargetStableBufferTimes,
               bufferLevel \in {Milli(b) : b \in {0, 5, MINIMUM_BUFFER_S, 20, MaxBufferLevel}}}

SeekInputs ==
    {[bolaState |-> bolaState, before |-> Undefined, stableBufferTime |-> 0,
      bufferLevel |-> 0, calls |-> 0] : bolaState \in SeekStates}

\* one call of clearBolaStateOnSeek on the TrackState
ClearBolaStateOnSeek ==
    /\ retarget.bolaState # Undefined
    /\ retarget.calls = 0
    /\ retarget' = [retarget EXCEPT !.bolaState = clearBolaStateOnSeek(retarget.bolaState),
                                    !.before = retarget.bolaState,
                                    !.calls = 1]
    /\ UNCHANGED <<eng, bolaStateDict, last, fragmentDict, abandonDict, throughputArray, now,
                   lastAb>>

-----------------------------------------------------------------------------
(* The engine on its own: one invocation of getQualityFromBufferLevel on the
   TrackState that getInitialBolaState builds for the inputs *)

EngineInputs ==
    [pc : {"ready"},
     bitrateList : MultiTierLadders,
     stableBufferTime : StableBufferTimes,
     bufferLevel : BufferLevels,
     throughput : Throughputs,
     segmentDuration : SegmentDurations,
     quality : {NaN},
     passes : {0}]

engineIdle ==
    [pc |-> "idle", bitrateList |-> <<>>, stableBufferTime |-> 0, bufferLevel |-> 0,
     throughput |-> 0, segmentDuration |-> 0, quality |-> NaN, passes |-> 0]

\* the TrackState of the engine's inputs
engineState(e) == getInitialBolaState(e.bitrateList, e.stableBufferTime)

\* ladders in which two representations have the same bandwidth
TiedLadders == {<<500000, 1000000, 1000000>>, <<500000, 500000, 2000000>>}

\* engine inputs on ladders with equal bitrates
TiedEngineInputs ==
    [pc : {"ready"},
     bitrateList : TiedLadders,
     stableBufferTime : StableBufferTimes,
     bufferLevel : BufferLevels,
     throughput : Throughputs,
     segmentDuration : SegmentDurations,
     quality : {NaN},
     passes : {0}]

RunEngine ==
    /\ eng.pc = "ready"
    /\ LET run == runLookAhead(engineState(eng), eng.bufferLevel, eng.throughput,
                               eng.segmentDuration)
       IN  eng' = [eng EXCEPT !.pc = "done", !.quality = run.quality, !.passes = run.passes]
    /\ UNCHANGED <<bolaStateDict, last, fragmentDict, abandonDict, throughputArray, now, lastAb,
                   retarget>>

-----------------------------------------------------------------------------
(* The engine of LABRule (src/unnamed/part_001 and the reference player's
   LABRule.js): getQualityFromBufferLevel(state, bufferLevel, throughput,
   segmentDuration), followed one iteration of its while loop at a time.  The
   loop has no iteration counter. *)

\* a thrown ReferenceError (read of an identifier that no scope declares)
ReferenceError == [error |-> "ReferenceError"]

\* the identifiers declared in the scopes around the scoring expression: the
\* parameters and locals of getQualityFromBufferLevel, the variables of
\* LABRuleClass and those of the module
LabScope ==
    {"state", "bufferLevel", "throughput", "segmentDuration", "bitrateCount", "quality",
     "bitrate", "prev_bitrate", "LABLevel", "score", "i", "s",
     "factory", "SwitchRequest", "MetricsModel", "DashMetrics", "DashManifestModel",
     "StreamController", "Debug", "context", "instance", "stateDict", "logger",
     "LABRule", "MINIMUM_BUFFER_S", "MINIMUM_BUFFER_PER_BITRATE_LEVEL_S"}

\* the for loop of one pass: the score of index 0 reads bolaState.Vp,
\* bolaState.utilities, bolaState.gp and bolaState.bitrates
labScoringPass(state, LABLevel) ==
    IF "bolaState" \notin LabScope THEN ReferenceError
    ELSE scoringPass(state, LABLevel)

\* the calls of LABRule's engine: bitrate and prev_bitrate start as NaN, LABLevel
\* as bufferLevel
LabEngineInputs ==
    {[pc |-> "loop", bitrateList |-> bitrateList, stableBufferTime |-> stableBufferTime,
      bufferLevel |-> bufferLevel, throughput |-> throughput,
      segmentDuration |-> segmentDuration, quality |-> NaN, bitrate |-> NaN,
      prev_bitrate |-> NaN, LABLevel |-> Milli(bufferLevel), passes |-> 0] :
        bitrateList \in MultiTierLadders, stableBufferTime \in StableBufferTimes,
        bufferLevel \in BufferLevels, throughput \in Throughputs,
        segmentDuration \in SegmentDurations}

\* the test of the while loop and, when it holds, one iteration of its body
LabLoopIteration ==
    /\ eng.pc = "loop"
    /\ IF eng.bitrate = NaN \/ eng.bitrate # eng.prev_bitrate
       THEN LET quality == labScoringPass(engineState(eng), eng.LABLevel)
            IN  IF quality = ReferenceError
                THEN eng' = [eng EXCEPT !.pc = "threw"]
                ELSE eng' = [eng EXCEPT
                                !.quality = quality,
                                !.prev_bitrate = eng.bitrate,
                                !.bitrate = eng.bitrateList[quality + 1],
                                !.LABLevel = projectedLevel(eng.bufferLevel,
                                                 eng.bitrateList[quality + 1],
                                                 eng.throughput, eng.segmentDuration),
                                !.passes = eng.passes + 1]
       ELSE eng' = [eng EXCEPT !.pc = "returned"]
    /\ UNCHANGED <<bolaStateDict, last, fragmentDict, abandonDict, throughputArray, now, lastAb,
                   retarget>>

-----------------------------------------------------------------------------
(* Specifications *)

lastIdle ==
    [op |-> "setup", rulesContext |-> Null, outcome |-> "returned",
     switchRequest |-> noOpSwitchRequest, delayDirectives |-> 0]

lastAbIdle ==
    [op |-> "setup", rulesContext |-> Null, outcome |-> "returned",
     switchRequest |-> noChange, engineLevel |-> NotCalled]

\* both rules after construction: setup() has run resetInitialSettings() / reset()
RulesInit ==
    /\ bolaStateDict = resetInitialSettings
    /\ last = lastIdle
    /\ fragmentDict = abandonReset.fragmentDict
    /\ abandonDict = abandonReset.abandonDict
    /\ throughputArray = abandonReset.throughputArray
    /\ now = 0
    /\ lastAb = lastAbIdle

InitEngine == eng \in EngineInputs /\ RulesInit /\ retarget = retargetIdle

InitTies == eng \in TiedEngineInputs /\ RulesInit /\ retarget = retargetIdle

InitLab == eng \in LabEngineInputs /\ RulesInit /\ retarget = retargetIdle

InitRules == eng = engineIdle /\ RulesInit /\ retarget = retargetIdle

InitRetarget == eng = engineIdle /\ RulesInit /\ retarget \in RetargetInputs

InitSeek == eng = engineIdle /\ RulesInit /\ retarget \in SeekInputs

NextEngine == RunEngine

NextLab == LabLoopIteration

NextBola == GetMaxIndex \/ BolaReset

NextAbandon == ShouldAbandon \/ AbandonReset \/ Tick

NextInterleaved == ShouldAbandonInterleaved \/ AbandonReset \/ Tick

NextRetarget == GetBolaStateOfTrack

NextSeek == ClearBolaStateOnSeek

SpecSeek == InitSeek /\ [][NextSeek]_vars

SpecEngine == InitEngine /\ [][NextEngine]_vars

SpecTies == InitTies /\ [][NextEngine]_vars

\* the call of the engine runs on: an enabled iteration is eventually taken
SpecLab == InitLab /\ [][NextLab]_vars /\ WF_vars(NextLab)

SpecBola == InitRules /\ [][NextBola]_vars

SpecAbandon == InitRules /\ [][NextAbandon]_vars

SpecInterleaved == InitRules /\ [][NextInterleaved]_vars

SpecRetarget == InitRetarget /\ [][NextRetarget]_vars

-----------------------------------------------------------------------------
(* Claims about BolaRule.getMaxIndex, checked under SpecBola *)

\* the last call was getMaxIndex on a context with every accessor and opt-in true
decisionRequested ==
    /\ last.op = "getMaxIndex"
    /\ last.rulesContext # Null
    /\ last.rulesContext.caps = AllCapabilities
    /\ last.rulesContext.useBufferOccupancyABR

\* the context of the call fails the guard of getMaxIndex: an accessor is missing
\* or the opt-in flag is false
guardFails(rulesContext) ==
    \/ rulesContext = Null
    \/ rulesContext.caps # AllCapabilities
    \/ ~rulesContext.useBufferOccupancyABR

\* C1: for a track whose bitrate ladder has exactly one entry, a decision request
\* with throughput available returns quality index 0 whatever the buffer level
\* and throughput, and the creation of the track's state raises no error.
C1_SingleTierYieldsZero ==
    ( /\ decisionRequested
      /\ last.rulesContext.throughput # NaN
      /\ Len(last.rulesContext.bitrateList) = 1
      /\ bolaStateDict[last.rulesContext.mediaType] = Undefined )
    => ( /\ last.outcome = "returned"
         /\ last.switchRequest.quality = 0 )

\* C3: getMaxIndex on a context that lacks an accessor, or whose opt-in flag is
\* false, returns the no-op decision (NO_CHANGE, DEFAULT), raises no error, creates
\* or changes no TrackState and sends no pacing directive.
C3_GuardedCallIsNoOp ==
    [][ ( last'.op = "getMaxIndex" /\ guardFails(last'.rulesContext) )
        => ( /\ last'.outcome = "returned"
             /\ last'.switchRequest = noOpSwitchRequest
             /\ last'.delayDirectives = 0
             /\ bolaStateDict' = bolaStateDict ) ]_vars

\* C4: when the throughput estimate is NaN, the decision of getMaxIndex is the no-op
\* one (no quality, DEFAULT priority) and the track state store is exactly as before
\* the call: no TrackState created, none modified, lastQuality not recorded.
C4_NoThroughputLeavesStore ==
    [][ ( /\ last'.op = "getMaxIndex"
          /\ ~guardFails(last'.rulesContext)
          /\ last'.rulesContext.throughput = NaN )
        => ( /\ last'.switchRequest = noOpSwitchRequest
             /\ bolaStateDict' = bolaStateDict ) ]_vars

\* C5: a decision request with throughput available returns a STRONG decision whose
\* quality is the index getQualityFromBufferLevel chooses on the track's state, the
\* index lies in 0 .. ladderSize - 1, and the track's lastQuality equals it.
C5_DecisionIsStrongAndRecorded ==
    ( decisionRequested /\ last.rulesContext.throughput # NaN )
    => ( /\ last.outcome = "returned"
         /\ last.switchRequest.priority = PRIORITY_STRONG
         /\ LET bolaState == bolaStateDict[last.rulesContext.mediaType]
            IN  /\ last.switchRequest.quality \in 0 .. (Len(bolaState.bitrates) - 1)
                /\ bolaState.lastQuality = last.switchRequest.quality
                /\ last.switchRequest.quality =
                       getQualityFromBufferLevel(bolaState,
                           last.rulesContext.bufferLevel,
                           last.rulesContext.throughput,
                           last.rulesContext.fragmentDuration) )

\* C16: the zero-delay pacing directive setTimeToLoadDelay(0) is issued exactly
\* once by a getMaxIndex call that returns a decision with a quality, and is not
\* issued by a getMaxIndex call that returns the no-op decision.
C16_DirectiveOnlyWithDecision ==
    ( last.op = "getMaxIndex" /\ last.outcome = "returned" )
    => ( /\ last.switchRequest.quality # NO_CHANGE => last.delayDirectives = 1
         /\ last.switchRequest = noOpSwitchRequest => last.delayDirectives = 0 )

-----------------------------------------------------------------------------
(* Claims about getQualityFromBufferLevel, checked under SpecEngine *)

ScenarioLadder == <<500000, 1000000, 2000000, 4000000>>

\* the quality the engine returns for the inputs of eng with the buffer level replaced
qualityAt(bufferLevel) ==
    getQualityFromBufferLevel(engineState(eng), bufferLevel, eng.throughput,
                              eng.segmentDuration)

\* the index one scoring pass chooses at a working level given in seconds
passAt(level) == scoringPass(engineState(eng), Milli(level))

\* C6: for a ladder with more than one tier and fixed throughput and segment
\* duration, the quality returned by getQualityFromBufferLevel is non-decreasing in
\* the buffer level, also when the look-ahead loop stops on the iteration cap.
C6_QualityMonotoneInBuffer ==
    eng.pc = "done"
    => \A b2 \in BufferLevels : eng.bufferLevel <= b2 => eng.quality <= qualityAt(b2)

\* C7: one invocation of getQualityFromBufferLevel makes at most ladderSize
\* scoring passes.
C7_AtMostLadderSizePasses ==
    eng.pc = "done" => eng.passes <= Len(eng.bitrateList)

\* C8: with Vp and gp from calculateBolaParameters and normalized log utilities, a
\* scoring pass has its maximum at index 0 when the level is MINIMUM_BUFFER_S and at
\* the top index when the level is max(stableBufferTime, 10 + 2 * ladderSize); with
\* segment duration 0 the engine returns these indices at these buffer levels.
C8_MaximaAtMinimumAndTarget ==
    eng.pc = "done"
    => LET top == Len(eng.bitrateList) - 1
           bufferTime == bufferTimeFor(eng.stableBufferTime, eng.bitrateList)
       IN  /\ passAt(MINIMUM_BUFFER_S) = 0
           /\ passAt(bufferTime) = top
           /\ (eng.segmentDuration = 0 /\ eng.bufferLevel = MINIMUM_BUFFER_S)
                  => eng.quality = 0
           /\ (eng.segmentDuration = 0 /\ eng.bufferLevel = bufferTime)
                  => eng.quality = top

C8_Witness ==
    /\ eng.pc = "done"
    /\ eng.segmentDuration = 0
    /\ eng.bufferLevel = bufferTimeFor(eng.stableBufferTime, eng.bitrateList)
    /\ eng.stableBufferTime > MINIMUM_BUFFER_S
           + MINIMUM_BUFFER_PER_BITRATE_LEVEL_S * Len(eng.bitrateList)
    /\ eng.quality = Len(eng.bitrateList) - 1

scenario ==
    /\ eng.pc = "done"
    /\ eng.bitrateList = ScenarioLadder
    /\ eng.stableBufferTime = 12

\* C9: for the ladder [500k, 1000k, 2000k, 4000k] and target buffer time 12 s the
\* engine chooses quality 0 at buffer level 10 s, and quality 3 at every buffer
\* level >= 12 s when the throughput is >= 4000 kbit/s.
C9_ScenarioA ==
    scenario
    => /\ eng.bufferLevel = 10 => eng.quality = 0
       /\ (eng.bufferLevel >= 12 /\ eng.throughput >= 4000) => eng.quality = 3

\* C9 as amended: for that ladder and target buffer time a scoring pass at level
\* 10 s chooses quality 0, the engine returns 0 at buffer level 10 s when the
\* projection does not raise the level (segment duration 0, or throughput at most
\* 500 kbit/s), and it returns 3 at every buffer level >= 18 s (the effective
\* buffer time max(12, 10 + 2 * 4)) when the throughput is >= 4000 kbit/s.
C9_ScenarioAEffectiveTime ==
    scenario
    => /\ passAt(10) = 0
       /\ (eng.bufferLevel = 10 /\ (eng.segmentDuration = 0 \/ eng.throughput <= 500))
              => eng.quality = 0
       /\ (eng.bufferLevel >= bufferTimeFor(12, ScenarioLadder)
              /\ eng.throughput >= 4000)
              => eng.quality = 3

C9_Witness ==
    /\ scenario
    /\ eng.bufferLevel = 18
    /\ eng.throughput = 4000
    /\ eng.segmentDuration > 0
    /\ eng.quality = 3

-----------------------------------------------------------------------------
(* Claim about BolaRule.reset, checked under SpecBola *)

\* C27: after reset() of a rule instance no per-track state from before the reset
\* remains (for BolaRule: no media type has a TrackState), and the next request
\* for a track rebuilds the TrackState from the then-current ladder and target
\* buffer time: a decision request for a media type without a TrackState leaves
\* the media type with the state getInitialBolaState builds for the ladder and
\* the target buffer time of the request.
C27_ResetClearsAndNextRequestRebuilds ==
    [][ /\ last'.op = "reset" => \A t \in MediaTypes : bolaStateDict'[t] = Undefined
        /\ ( /\ last'.op = "getMaxIndex"
             /\ ~guardFails(last'.rulesContext)
             /\ bolaStateDict[last'.rulesContext.mediaType] = Undefined )
           => LET bolaState == bolaStateDict'[last'.rulesContext.mediaType]
              IN  /\ bolaState # Undefined
                  /\ bolaState.bitrates = last'.rulesContext.bitrateList
                  /\ bolaState.stableBufferTime = last'.rulesContext.stableBufferTime
                  /\ bolaState.placeholderBuffer = 0 ]_vars

-----------------------------------------------------------------------------
(* Claim about the scoring pass on ladders with equal bitrates, checked under
   SpecTies *)

\* the score of index i is at least that of index j, in the pass at level (seconds)
scoreAtLeast(i, j, level) ==
    LET bolaState == engineState(eng)
    IN  scoreNumerator(bolaState, i, Milli(level)) * Kbps(bolaState.bitrates[j + 1])
            >= scoreNumerator(bolaState, j, Milli(level)) * Kbps(bolaState.bitrates[i + 1])

\* C20: in each scoring pass the chosen index attains the maximum score of the
\* pass, and when two or more indices have exactly that score the highest of them
\* is chosen: every higher index scores strictly less.
C20_HighestIndexOfMaximalScore ==
    eng.pc = "done"
    => \A level \in BufferLevels :
           LET chosen == passAt(level)
           IN  \A i \in 0 .. (Len(eng.bitrateList) - 1) :
                   /\ scoreAtLeast(chosen, i, level)
                   /\ i > chosen => ~scoreAtLeast(i, chosen, level)

\* the pass at the buffer level of the call chose the higher of two indices whose
\* scores are equal and maximal
C20_Witness ==
    /\ eng.pc = "done"
    /\ LET chosen == passAt(eng.bufferLevel)
       IN  /\ chosen > 0
           /\ scoreAtLeast(chosen - 1, chosen, eng.bufferLevel)
           /\ scoreAtLeast(chosen, chosen - 1, eng.bufferLevel)

-----------------------------------------------------------------------------
(* Claim about the look-ahead loop of LABRule, checked under SpecLab *)

\* C21: the look-ahead loop of getQualityFromBufferLevel in the LABRule variants
\* terminates for every ladder, buffer level, throughput and segment duration: the
\* call eventually returns, having stopped because the chosen bitrate was the
\* same in two consecutive passes or because the iteration cap (one pass more
\* than the ladder has entries) was reached.
C21_LoopReturnsOnRepeatOrCap ==
    <>( /\ eng.pc = "returned"
        /\ \/ eng.bitrate = eng.prev_bitrate
           \/ eng.passes > Len(eng.bitrateList) )

-----------------------------------------------------------------------------
(* Claims about AbandonRequestsRule.shouldAbandon, checked under SpecAbandon *)

\* the last call was shouldAbandon on a context with every accessor
progressNotified ==
    /\ lastAb.op = "shouldAbandon"
    /\ lastAb.rulesContext # Null
    /\ lastAb.rulesContext.caps = AbandonAllCapabilities

\* the last call was a notification of a tracked request above the lowest quality
\* that passed the abandonment thresholds: at least 5 samples, more than 500 ms
\* elapsed, bytesLoaded < bytesTotal, estimated download time >= 1.8 x the segment
\* duration, and the fragment id not abandoned before
thresholdsPassed ==
    /\ progressNotified
    /\ lastAb.rulesContext.index # NaN
    /\ lastAb.rulesContext.firstByteDate # NullDate
    /\ lastAb.rulesContext.quality > 0
    /\ LET type == lastAb.rulesContext.mediaType
           fragmentInfo == fragmentDict[type][lastAb.rulesContext.index]
       IN  /\ fragmentInfo # Undefined
           /\ fragmentInfo.id \notin abandonDict
           /\ Len(throughputArray[type]) >= MIN_LENGTH_TO_AVERAGE
           /\ fragmentInfo.elapsedTime = now - fragmentInfo.firstByteTime
           /\ fragmentInfo.elapsedTime > GRACE_TIME_THRESHOLD
           /\ fragmentInfo.bytesLoaded = lastAb.rulesContext.bytesLoaded
           /\ fragmentInfo.bytesLoaded < fragmentInfo.bytesTotal
           /\ fragmentInfo.estimatedTimeOfDownload # UndefinedNumber
           /\ ~finishesInTime(fragmentInfo.estimatedTimeOfDownload,
                              fragmentInfo.segmentDuration)

\* C2: shouldAbandon returns a decision object for every progress notification in
\* every reachable state of the rule; it never ends with an error.
C2_ShouldAbandonReturns ==
    progressNotified => lastAb.outcome = "returned"

\* C10: for a tracked request above the lowest quality that passed the abandonment
\* thresholds, shouldAbandon commits abandonment when the candidate quality is
\* cheaper than the bytes outstanding (a decision carrying the candidate quality,
\* the fragment id in the abandoned set, the tracking entry removed) and returns
\* NO_CHANGE otherwise.  On the state after the call: when the thresholds were
\* passed and the request is still tracked, nothing was committed, so the call
\* returned NO_CHANGE and the fragment id is not in the abandoned set.
C10_AbandonmentIsDecided ==
    thresholdsPassed
    => /\ lastAb.outcome = "returned"
       /\ lastAb.switchRequest.quality = NO_CHANGE
       /\ lastAb.rulesContext.index \notin abandonDict

\* the step is a call of shouldAbandon on a context with every accessor, for a
\* request whose index is a number and whose first byte has arrived
requestNotified ==
    /\ lastAb'.op = "shouldAbandon"
    /\ lastAb'.rulesContext # Null
    /\ lastAb'.rulesContext.caps = AbandonAllCapabilities
    /\ lastAb'.rulesContext.index # NaN
    /\ lastAb'.rulesContext.firstByteDate # NullDate

\* the time since the first byte of the request that the call computes
elapsedAtCall ==
    LET entry == fragmentDict[lastAb'.rulesContext.mediaType][lastAb'.rulesContext.index]
    IN  IF entry # Undefined /\ entry.firstByteTime # UndefinedNumber
        THEN now - entry.firstByteTime
        ELSE now - lastAb'.rulesContext.firstByteDate

\* the tracking entry of the request of the last call
lastEntry == fragmentDict[lastAb.rulesContext.mediaType][lastAb.rulesContext.index]

\* C12: shouldAbandon never abandons a request whose representation quality is 0:
\* the call returns NO_CHANGE, the abandoned set is unchanged and the tracking
\* entry of a request that is not complete is kept.
C12_LowestQualityIsKept ==
    [][ ( requestNotified /\ lastAb'.rulesContext.quality = 0 )
        => ( /\ lastAb'.outcome = "returned"
             /\ lastAb'.switchRequest = noChange
             /\ abandonDict' = abandonDict
             /\ lastAb'.rulesContext.bytesLoaded < lastAb'.rulesContext.bytesTotal
                    => fragmentDict'[lastAb'.rulesContext.mediaType]
                                    [lastAb'.rulesContext.index] # Undefined ) ]_vars

\* a request at quality 0 was notified past the thresholds with an estimated
\* download time of at least 1.8 x the segment duration, and was kept
C12_Witness ==
    /\ progressNotified
    /\ lastAb.rulesContext.index # NaN
    /\ lastAb.rulesContext.quality = 0
    /\ lastAb.outcome = "returned"
    /\ lastEntry # Undefined
    /\ Len(throughputArray[lastAb.rulesContext.mediaType]) >= MIN_LENGTH_TO_AVERAGE
    /\ lastEntry.elapsedTime > GRACE_TIME_THRESHOLD
    /\ lastEntry.bytesLoaded = lastAb.rulesContext.bytesLoaded
    /\ lastEntry.estimatedTimeOfDownload # UndefinedNumber
    /\ ~finishesInTime(lastEntry.estimatedTimeOfDownload, lastEntry.segmentDuration)

\* C13: shouldAbandon returns NO_CHANGE and marks no fragment abandoned whenever
\* the sample window of the track holds fewer than 5 samples (the sample of the
\* call included) or the time since the first byte is at most 500 ms, for every
\* value of bytesLoaded.
C13_NoActionBeforeThresholds ==
    [][ ( /\ requestNotified
          /\ \/ Len(throughputArray'[lastAb'.rulesContext.mediaType]) < MIN_LENGTH_TO_AVERAGE
             \/ elapsedAtCall <= GRACE_TIME_THRESHOLD )
        => ( /\ lastAb'.outcome = "returned"
             /\ lastAb'.switchRequest = noChange
             /\ abandonDict' = abandonDict ) ]_vars

\* a slow request above the lowest quality, past the grace time, with bytes
\* outstanding, is left alone because its window holds 1 to 4 samples
C13_Witness ==
    /\ progressNotified
    /\ lastAb.rulesContext.index # NaN
    /\ lastAb.rulesContext.quality > 0
    /\ lastAb.outcome = "returned"
    /\ lastEntry # Undefined
    /\ Len(throughputArray[lastAb.rulesContext.mediaType]) \in 1 .. (MIN_LENGTH_TO_AVERAGE - 1)
    /\ lastEntry.elapsedTime > GRACE_TIME_THRESHOLD
    /\ lastEntry.bytesLoaded = lastAb.rulesContext.bytesLoaded
    /\ lastEntry.bytesLoaded > 0
    /\ lastEntry.bytesLoaded < lastEntry.bytesTotal

\* C14: a notification with bytesLoaded = bytesTotal for a tracked request that
\* has not been abandoned removes the tracking entry of the request, returns
\* NO_CHANGE and leaves the abandoned set unchanged.
C14_CompletedRequestIsCleared ==
    [][ ( /\ requestNotified
          /\ lastAb'.rulesContext.index \notin abandonDict
          /\ lastAb'.rulesContext.bytesLoaded = lastAb'.rulesContext.bytesTotal )
        => ( /\ fragmentDict'[lastAb'.rulesContext.mediaType]
                             [lastAb'.rulesContext.index] = Undefined
             /\ lastAb'.outcome = "returned"
             /\ lastAb'.switchRequest = noChange
             /\ abandonDict' = abandonDict ) ]_vars

\* a request completed with a full window past the grace time, and was cleared
C14_Witness ==
    /\ progressNotified
    /\ lastAb.rulesContext.index # NaN
    /\ lastAb.rulesContext.firstByteDate # NullDate
    /\ lastAb.rulesContext.bytesLoaded = lastAb.rulesContext.bytesTotal
    /\ lastEntry = Undefined
    /\ Len(throughputArray[lastAb.rulesContext.mediaType]) >= MIN_LENGTH_TO_AVERAGE
    /\ now > GRACE_TIME_THRESHOLD
    /\ lastAb.outcome = "returned"

\* C15: state is independent per media track.  A notification for one media type
\* leaves the tracking entries and the sample window of every other media type
\* as they are, and a fragment id tracked on another track is still tracked and
\* decided on this one: once its thresholds are passed, with its id not in the
\* abandoned set, the call returns its decision.
C15_TracksAreIndependent ==
    [][ requestNotified
        => LET type == lastAb'.rulesContext.mediaType
               id == lastAb'.rulesContext.index
           IN  /\ \A t \in MediaTypes \ {type} :
                      /\ fragmentDict'[t] = fragmentDict[t]
                      /\ throughputArray'[t] = throughputArray[t]
               /\ ( /\ \E t \in MediaTypes \ {type} : fragmentDict[t][id] # Undefined
                    /\ thresholdsPassed' )
                      => lastAb'.outcome = "returned" ]_vars

\* the placeholder buffer of the track of shouldAbandon: that of its TrackState, 0
\* for a track whose state is yet to be built
abandonPlaceholderBuffer(mediaType) ==
    IF abandonBolaStateDict = Undefined THEN 0
    ELSE abandonBolaStateDict[mediaType].placeholderBuffer

\* C19: the buffer level handed to getQualityFromBufferLevel by an entry point is
\* the real buffer level of the track plus its placeholder buffer at the time of
\* the call.  For shouldAbandon: a notification that passes the abandonment
\* thresholds hands the engine that level.
C19_EngineGetsEffectiveLevel ==
    thresholdsPassed
    => lastAb.engineLevel = lastAb.rulesContext.bufferLevel
                                + abandonPlaceholderBuffer(lastAb.rulesContext.mediaType)

\* C25: shouldAbandon commits abandonment only if the bytes remaining of the
\* current request are strictly greater than the estimated total bytes of the
\* candidate quality; when they are equal or fewer it returns NO_CHANGE, leaves
\* the abandoned set unchanged and keeps the tracking entry.  After a notification
\* that passed the thresholds: for every candidate quality whose estimated total
\* bytes are at least the bytes remaining, the call returned NO_CHANGE, the id is
\* not in the abandoned set and the request is still tracked.
C25_KeptWhenRestartIsNotCheaper ==
    thresholdsPassed
    => \A newQuality \in 0 .. (Len(AbandonLadder) - 1) :
           lastEntry.bytesTotal - lastEntry.bytesLoaded
                  <= estimateOtherBytesTotal(lastEntry.bytesTotal, AbandonLadder,
                                             newQuality, lastAb.rulesContext.quality)
           => /\ lastAb.outcome = "returned"
              /\ lastAb.switchRequest = noChange
              /\ lastEntry.id \notin abandonDict
              /\ lastEntry # Undefined

\* the TrackState AbandonRequestsRule holds for a media type, undefined while
\* none is stored
abandonTrackState(mediaType) ==
    IF abandonBolaStateDict = Undefined THEN Undefined
    ELSE abandonBolaStateDict[mediaType]

\* C22: TrackState is created once per media type between resets, on the first
\* request that needs it, and reused by later requests.  The first request that
\* needs it is the first notification that passes the abandonment thresholds: for
\* a ladder with more than one tier (the request is above quality 0) the track
\* then has a state with tag STARTUP, placeholder buffer 0, lastQuality 0 and all
\* seek-bookkeeping fields unknown.
C22_TrackStateBuiltOnFirstNeed ==
    thresholdsPassed
    => LET bolaState == abandonTrackState(lastAb.rulesContext.mediaType)
       IN  /\ bolaState # Undefined
           /\ bolaState.state = BOLA_STATE_STARTUP
           /\ bolaState.placeholderBuffer = 0
           /\ bolaState.lastQuality = 0
           /\ bolaState.mostAdvancedSegmentStart = NaN
           /\ bolaState.lastSegmentStart = NaN
           /\ bolaState.lastSegmentDurationS = NaN
           /\ bolaState.lastSegmentRequestTimeMs = NaN
           /\ bolaState.lastSegmentFinishTimeMs = NaN

-----------------------------------------------------------------------------
(* Claim about the sample window with two requests in flight on one track,
   checked under SpecInterleaved *)

\* the throughput samples the notifications of a request can give: its bytesLoaded
\* over the time since its first byte, at the clock times after the first byte
samplesOf(rulesContext) ==
    {RoundDiv(rulesContext.bytesLoaded * 8, t - rulesContext.firstByteDate) :
        t \in {c \in ClockTimes : c > rulesContext.firstByteDate}}

\* the call of the step is the first notification of its request
firstNotification ==
    LET entry == fragmentDict[lastAb'.rulesContext.mediaType][lastAb'.rulesContext.index]
    IN  entry = Undefined \/ entry.firstByteTime = UndefinedNumber

\* C26: the throughput sample window of a track is emptied on the first
\* notification of a request (after the call it holds at most the sample of that
\* notification), and whenever abandonment is evaluated for a request (5 samples,
\* more than 500 ms elapsed, bytes outstanding) every sample in the window was
\* computed from notifications of that same request, also when notifications of
\* two in-flight requests with different ids on the same track interleave.
C26_WindowHoldsSamplesOfRequest ==
    [][ requestNotified
        => LET rulesContext == lastAb'.rulesContext
               window == throughputArray'[rulesContext.mediaType]
           IN  /\ firstNotification => Len(window) <= 1
               /\ ( \/ firstNotification
                    \/ abandonmentDue(window, elapsedAtCall, rulesContext.bytesLoaded,
                                      rulesContext.bytesTotal) )
                      => \A k \in 1 .. Len(window) : window[k] \in samplesOf(rulesContext) ]_vars

-----------------------------------------------------------------------------
(* Claims about the retargeting of a TrackState, checked under SpecRetarget *)

\* getBolaState was called on a track whose state has parameters
retargeted ==
    /\ retarget.calls > 0
    /\ retarget.before.state # BOLA_STATE_ONE_BITRATE

\* the call was made at the buffer level at which the effective buffer level
\* (buffer level + placeholder buffer) is MINIMUM_BUFFER_S, and changed Vp or gp
retargetedAtMinimumBuffer ==
    /\ retargeted
    /\ retarget.bufferLevel + retarget.before.placeholderBuffer = Milli(MINIMUM_BUFFER_S)
    /\ \/ retarget.bolaState.Vp # retarget.before.Vp
       \/ retarget.bolaState.gp # retarget.before.gp

\* C17: getBolaState for an existing track while the configured target buffer time
\* equals the one cached in its TrackState leaves every field of the TrackState
\* unchanged.
C17_SameTargetLeavesState ==
    /\ retargeted /\ retarget.stableBufferTime = retarget.before.stableBufferTime
           => retarget.bolaState = retarget.before
    /\ (retarget.calls > 0 /\ retarget.before.state = BOLA_STATE_ONE_BITRATE)
           => retarget.bolaState = retarget.before

\* a state with a placeholder buffer went through a call with its own target
C17_Witness ==
    /\ retargeted
    /\ retarget.stableBufferTime = retarget.before.stableBufferTime
    /\ retarget.before.placeholderBuffer > 0
    /\ retarget.bufferLevel # Milli(MINIMUM_BUFFER_S) - retarget.before.placeholderBuffer

retargetParams ==
    calculateBolaParameters(retarget.stableBufferTime, retarget.before.bitrates,
                            retarget.before.utilities)

\* C23: when a retarget yields Vp or gp different from the cached ones, the new
\* placeholder buffer is max(0, (B + P - 10) * newVp / oldVp + 10 - B), for B the
\* real buffer level and P the old placeholder buffer, and Vp, gp and the cached
\* target buffer time are replaced by the new values; when the recomputed Vp and
\* gp both equal the cached ones the placeholder buffer is not changed.
C23_RetargetRescalesPlaceholder ==
    retargeted
    => LET B == retarget.bufferLevel
           P == retarget.before.placeholderBuffer
       IN  IF retargetParams.Vp # retarget.before.Vp \/ retargetParams.gp # retarget.before.gp
           THEN /\ retarget.bolaState.placeholderBuffer
                       = Max(0, ((B + P - Milli(MINIMUM_BUFFER_S)) * retargetParams.Vp)
                                    \div retarget.before.Vp
                                + Milli(MINIMUM_BUFFER_S) - B)
                /\ retarget.bolaState.Vp = retargetParams.Vp
                /\ retarget.bolaState.gp = retargetParams.gp
                /\ retarget.bolaState.stableBufferTime = retarget.stableBufferTime
           ELSE retarget.bolaState.placeholderBuffer = P

\* a state with a placeholder buffer was retargeted to other parameters at a
\* buffer level above MINIMUM_BUFFER_S, where the formula is negative and the
\* placeholder buffer becomes 0
C23_Witness ==
    /\ retargeted
    /\ retargetParams.Vp # retarget.before.Vp
    /\ retarget.before.placeholderBuffer > 0
    /\ retarget.bufferLevel > Milli(MINIMUM_BUFFER_S)
    /\ retarget.bolaState.placeholderBuffer = 0

trackHasParameters ==
    /\ retarget.bolaState # Undefined
    /\ retarget.bolaState.state # BOLA_STATE_ONE_BITRATE

C32_ParametersArePositive ==
    trackHasParameters
    => /\ retarget.bolaState.Vp > 0
       /\ retarget.bolaState.gp > 0
       /\ \A stableBufferTime \in RetargetStableBufferTimes :
              LET params == calculateBolaParameters(stableBufferTime,
                                                    retarget.bolaState.bitrates,
                                                    retarget.bolaState.utilities)
              IN  /\ bufferTimeFor(stableBufferTime, retarget.bolaState.bitrates)
                         > MINIMUM_BUFFER_S
                  /\ params # Null
                  /\ params.gp > 0
                  /\ params.Vp > 0

\* a getBolaState call with a target that is not above MINIMUM_BUFFER_S replaced
\* the parameters: it divided by the Vp cached before
C32_Witness ==
    /\ retargeted
    /\ retarget.stableBufferTime <= MINIMUM_BUFFER_S
    /\ retarget.bolaState.stableBufferTime = retarget.stableBufferTime
    /\ retarget.bolaState.Vp # retarget.before.Vp
    /\ retarget.bolaState.Vp > 0

-----------------------------------------------------------------------------
(* Claim about clearBolaStateOnSeek, checked under SpecSeek *)

\* the fields clearBolaStateOnSeek assigns
SeekFields ==
    {"placeholderBuffer", "mostAdvancedSegmentStart", "lastSegmentWasReplacement",
     "lastSegmentStart", "lastSegmentDurationS", "lastSegmentRequestTimeMs",
     "lastSegmentFinishTimeMs"}

\* C24: clearBolaStateOnSeek sets the placeholder buffer to 0 and every
\* seek-bookkeeping field to unknown, and leaves the ladder, utilities, Vp, gp,
\* cached target buffer time, state tag and lastQuality unchanged.
C24_SeekClearsOnlyBookkeeping ==
    retarget.calls > 0
    => /\ retarget.bolaState.placeholderBuffer = 0
       /\ retarget.bolaState.mostAdvancedSegmentStart = NaN
       /\ retarget.bolaState.lastSegmentWasReplacement = FALSE
       /\ retarget.bolaState.lastSegmentStart = NaN
       /\ retarget.bolaState.lastSegmentDurationS = NaN
       /\ retarget.bolaState.lastSegmentRequestTimeMs = NaN
       /\ retarget.bolaState.lastSegmentFinishTimeMs = NaN
       /\ DOMAIN retarget.bolaState = DOMAIN retarget.before
       /\ \A field \in (DOMAIN retarget.before) \ SeekFields :
              retarget.bolaState[field] = retarget.before[field]

\* a state with a placeholder buffer was cleared
C24_Witness ==
    /\ retarget.calls > 0
    /\ retarget.before.placeholderBuffer > 0
    /\ retarget.bolaState.placeholderBuffer = 0
    /\ retarget.bolaState.Vp = retarget.before.Vp

====
